---- MODULE Spec2Model ----
(***************************************************************************)
(* Layers of cnn/layers.py (Layer, FCLayer, Convolution, ReLU, Pooling,    *)
(* Dropout, Flatten) as a state machine over ONE layer instance: Init is   *)
(* the state right after the constructor, every action is one method call. *)
(* numpy arrays are records [tag, shape, data] with row-major data; None   *)
(* and a raised exception are records with their own tag.  Strings (layer  *)
(* names, prefixes, dictionary keys) are sequences of characters.          *)
(***************************************************************************)
EXTENDS Integers, Sequences, FiniteSets, TLC

(************************* bounds of the model *****************************)
\* an element of an argument tensor is 0 or MaxVal (ReLU: also -MaxVal)
MaxVal == 1
\* largest batch size of the tensors given to FCLayer, Convolution, Flatten
MaxBatch == 1
\* largest length of the 1-d tensors given to Dropout
MaxLen == 2

(************************* python values ***********************************)
None == [tag |-> "None"]
Raise(type) == [tag |-> "Error", type |-> type]
ND(shape, data) == [tag |-> "ndarray", shape |-> shape, data |-> data]
IsErr(v) == v.tag = "Error"
IsND(v) == v.tag = "ndarray"

Max2(a, b) == IF a >= b THEN a ELSE b

\* the product / the sum of s[i..Len(s)]
RECURSIVE ProdFrom(_, _)
ProdFrom(s, i) == IF i > Len(s) THEN 1 ELSE s[i] * ProdFrom(s, i + 1)
Prod(s) == ProdFrom(s, 1)
RECURSIVE SumFrom(_, _)
SumFrom(s, i) == IF i > Len(s) THEN 0 ELSE s[i] + SumFrom(s, i + 1)
SumSeq(s) == SumFrom(s, 1)

\* row-major strides, multi-index <-> flat offset (0-based)
Stride(shape, i) == ProdFrom(shape, i + 1)
Unravel(f, shape) ==
    <<>> \o [i \in 1..Len(shape) |-> (f \div Stride(shape, i)) % shape[i]]
RECURSIVE RavelFrom(_, _, _, _)
RavelFrom(m, shape, i, acc) ==
    IF i > Len(shape) THEN acc ELSE RavelFrom(m, shape, i + 1, acc * shape[i] + m[i])
Ravel(m, shape) == RavelFrom(m, shape, 1, 0)
At(t, m) == t.data[Ravel(m, t.shape) + 1]

\* the array of the given shape whose element at multi-index m is F(m)
\* (<<>> \o f is f, enumerated once)
FromFn(shape, F(_)) ==
    ND(<<>> \o shape, <<>> \o [f \in 1..Prod(shape) |-> F(Unravel(f - 1, shape))])

Zeros(shape) == FromFn(shape, LAMBDA m : 0)
Ones(shape) == FromFn(shape, LAMBDA m : 1)

\* a.reshape(shape); one entry of shape may be -1
ReshapeTo(shape, size) ==
    IF \E i \in 1..Len(shape) : shape[i] = -1
    THEN LET known == Prod([i \in 1..Len(shape) |-> IF shape[i] = -1 THEN 1 ELSE shape[i]])
         IN  IF known = 0 \/ size % known # 0 THEN <<-1>>
             ELSE [i \in 1..Len(shape) |-> IF shape[i] = -1 THEN size \div known ELSE shape[i]]
    ELSE shape
Reshape(t, shape) ==
    IF IsErr(t) THEN t
    ELSE LET s == ReshapeTo(shape, Len(t.data))
         IN  IF Prod(s) # Len(t.data) \/ (\E i \in 1..Len(s) : s[i] < 0)
             THEN Raise("ValueError") ELSE ND(s, t.data)

\* a.transpose(perm), perm 1-based: axis i of the result is axis perm[i] of a
Transpose(t, perm) ==
    IF IsErr(t) THEN t
    ELSE IF Len(perm) # Len(t.shape) THEN Raise("ValueError")
    ELSE FromFn([i \in 1..Len(perm) |-> t.shape[perm[i]]],
                LAMBDA m : At(t, [k \in 1..Len(perm) |->
                                     m[CHOOSE i \in 1..Len(perm) : perm[i] = k]]))
\* a.T reverses the axes (a 1-d array is its own transpose)
T(t) == IF IsErr(t) THEN t
        ELSE Transpose(t, [i \in 1..Len(t.shape) |-> Len(t.shape) + 1 - i])

\* a @ b for 2-d @ 2-d and 2-d @ 1-d
MatMul(a, b) ==
    IF IsErr(a) THEN a ELSE IF IsErr(b) THEN b
    ELSE IF Len(a.shape) = 2 /\ Len(b.shape) = 2
    THEN IF a.shape[2] # b.shape[1] THEN Raise("ValueError")
         ELSE FromFn(<<a.shape[1], b.shape[2]>>,
                     LAMBDA m : SumSeq([k \in 1..a.shape[2] |->
                                   At(a, <<m[1], k - 1>>) * At(b, <<k - 1, m[2]>>)]))
    ELSE IF Len(a.shape) = 2 /\ Len(b.shape) = 1
    THEN IF a.shape[2] # b.shape[1] THEN Raise("ValueError")
         ELSE FromFn(<<a.shape[1]>>,
                     LAMBDA m : SumSeq([k \in 1..a.shape[2] |->
                                   At(a, <<m[1], k - 1>>) * At(b, <<k - 1>>)]))
    ELSE Raise("ValueError")

\* np.sum(a, axis=axes): the axes (1-based) are summed away
SumAxes(t, axes) ==
    IF IsErr(t) THEN t
    ELSE IF \E ax \in axes : ax > Len(t.shape) THEN Raise("AxisError")
    ELSE LET n == Len(t.shape)
             kept == SelectSeq([i \in 1..n |-> i], LAMBDA i : i \notin axes)
             Same(f, m) == \A j \in 1..Len(kept) : Unravel(f - 1, t.shape)[kept[j]] = m[j]
         IN  FromFn([j \in 1..Len(kept) |-> t.shape[kept[j]]],
                    LAMBDA m : SumSeq([f \in 1..Len(t.data) |->
                                          IF Same(f, m) THEN t.data[f] ELSE 0]))

\* numpy broadcasting of two shapes, <<-1>> when they do not broadcast
PadShape(s, n) == [i \in 1..n |-> IF i <= n - Len(s) THEN 1 ELSE s[i - (n - Len(s))]]
BroadcastShape(s1, s2) ==
    LET n == Max2(Len(s1), Len(s2))
        p1 == PadShape(s1, n)
        p2 == PadShape(s2, n)
    IN  IF \A i \in 1..n : p1[i] = p2[i] \/ p1[i] = 1 \/ p2[i] = 1
        THEN [i \in 1..n |-> IF p1[i] = 1 THEN p2[i] ELSE p1[i]]
        ELSE <<-1>>
BAt(t, m) ==
    LET n == Len(m)
        p == PadShape(t.shape, n)
        k == n - Len(t.shape)
    IN  At(t, [i \in 1..Len(t.shape) |-> IF p[i + k] = 1 THEN 0 ELSE m[i + k]])
\* a (op) b element-wise with broadcasting; an operand None is a TypeError
Elementwise(a, b, Op(_, _)) ==
    IF IsErr(a) THEN a ELSE IF IsErr(b) THEN b
    ELSE IF ~IsND(a) \/ ~IsND(b) THEN Raise("TypeError")
    ELSE LET s == BroadcastShape(a.shape, b.shape)
         IN  IF s = <<-1>> THEN Raise("ValueError")
             ELSE FromFn(s, LAMBDA m : Op(BAt(a, m), BAt(b, m)))
Add(a, b) == Elementwise(a, b, LAMBDA x, y : x + y)
Mul(a, b) == Elementwise(a, b, LAMBDA x, y : x * y)

\* all arrays of a shape with elements in a set
Tensors(shape, vals) == {ND(shape, d) : d \in [1..Prod(shape) -> vals]}


(************************* strings and dictionaries ************************)
Str_weights == <<"w", "e", "i", "g", "h", "t", "s">>
Str_bias == <<"b", "i", "a", "s">>
Str_fclayer == <<"f", "c", "l", "a", "y", "e", "r">>
Str_conv == <<"c", "o", "n", "v">>
Str_relu == <<"r", "e", "l", "u">>
Str_pooling == <<"p", "o", "o", "l", "i", "n", "g">>
Str_dropout == <<"d", "r", "o", "p", "o", "u", "t">>
Str_flatten == <<"f", "l", "a", "t", "t", "e", "n">>
Str_0 == <<"0">>

\* python's `sub in s` on strings
StrIn(sub, s) == \E i \in 0..(Len(s) - Len(sub)) : SubSeq(s, i + 1, i + Len(sub)) = sub

\* prefix+':'+self.name+'/weights' and prefix+':'+self.name+'/bias'
WeightsKey(prefix, nm) == prefix \o <<":">> \o nm \o <<"/">> \o Str_weights
BiasKey(prefix, nm) == prefix \o <<":">> \o nm \o <<"/">> \o Str_bias

\* a dict is the sequence of its items [k, v] in insertion order, keys distinct
Item(k, v) == [k |-> k, v |-> v]
Dict(items) == [tag |-> "dict", items |-> items]
Keys(d) == {d.items[i].k : i \in 1..Len(d.items)}
HasKey(d, k) == k \in Keys(d)
Get(d, k) == d.items[CHOOSE i \in 1..Len(d.items) : d.items[i].k = k].v

(************************* constructor arguments ***************************)
Kinds == {"FCLayer", "Convolution", "ReLU", "Pooling", "Dropout", "Flatten"}
ParamKinds == {"FCLayer", "Convolution"}

\* FCLayer(in_features, out_features)
in_features == 2
out_features == 1
\* Convolution(conv_params)
kernel_h == 1
kernel_w == 2
conv_stride == 1
conv_pad == 0
in_channel == 1
out_channel == 1
\* Pooling(pool_params)
pool_height == 1
pool_width == 2
pool_stride == 2
pool_pad == 0
PoolTypes == {"max", "avg", "min"}
\* Dropout(ratio) with ratio = 0.5: a kept element of the mask is 1/(1-ratio)
inv_keep == 2

\* the name given to the constructor: the default, or one that holds 'weights'
DefaultName(k) ==
    CASE k = "FCLayer" -> Str_fclayer
      [] k = "Convolution" -> Str_conv
      [] k = "ReLU" -> Str_relu
      [] k = "Pooling" -> Str_pooling
      [] k = "Dropout" -> Str_dropout
      [] k = "Flatten" -> Str_flatten
Names(k) ==
    IF k \in ParamKinds THEN {DefaultName(k), Str_weights \o <<"_">> \o DefaultName(k)}
    ELSE {DefaultName(k)}
Prefixes == {Str_0, Str_weights}

WeightsShape(k) ==
    IF k = "FCLayer" THEN <<in_features, out_features>>
    ELSE <<out_channel, in_channel, kernel_h, kernel_w>>
BiasShape(k) == IF k = "FCLayer" THEN <<out_features>> ELSE <<out_channel>>

(************************* arguments of the calls **************************)
Vals == {0, MaxVal}
Batches == 1..MaxBatch
\* the array of a shape with every element v
Full(shape, v) == FromFn(shape, LAMBDA m : v)
FCInputs == UNION {Tensors(<<b, in_features>>, Vals) : b \in Batches}
FCGrads(x) == Tensors(<<x.shape[1], out_features>>, Vals)
ConvInputs == UNION {Tensors(<<b, in_channel, 1, 2>>, Vals) : b \in Batches}
ConvOutShape(x) ==
    <<x.shape[1], out_channel,
      (x.shape[3] + 2 * conv_pad - kernel_h) \div conv_stride + 1,
      (x.shape[4] + 2 * conv_pad - kernel_w) \div conv_stride + 1>>
ConvGrads(x) == Tensors(ConvOutShape(x), Vals)
ReLUTensors == Tensors(<<2>>, {-MaxVal, 0, MaxVal})
\* multiples of the window size, so that a window's mean and an evenly spread
\* gradient are integers
PoolVals == {v * pool_height * pool_width : v \in Vals}
PoolInputs == Tensors(<<1, 1, 1, 4>>, PoolVals)
PoolOutShape(x) ==
    <<x.shape[1], x.shape[2],
      (x.shape[3] - pool_height) \div pool_stride + 1,
      (x.shape[4] - pool_width) \div pool_stride + 1>>
PoolGrads(x) == Tensors(PoolOutShape(x), PoolVals)
DropTensors == UNION {Tensors(<<n>>, Vals) : n \in 1..MaxLen}
FlattenInputs == UNION {Tensors(<<b, 1, 1, 2>>, Vals) : b \in Batches}
FlattenGrads(x) == Tensors(<<x.shape[1], Prod(x.shape) \div x.shape[1]>>, Vals)

\* what an optimizer hands to update: the exported keys of one prefix, both of
\* them or one, with values of the parameters' shapes (a layer without
\* parameters ignores the dictionary)
ParamDicts(k, nm) ==
    LET ws == IF k \in ParamKinds THEN WeightsShape(k) ELSE <<1>>
        bs == IF k \in ParamKinds THEN BiasShape(k) ELSE <<1>>
        WI(p) == {Item(WeightsKey(p, nm), Full(ws, v)) : v \in Vals}
        BI(p) == {Item(BiasKey(p, nm), Full(bs, v)) : v \in Vals}
    IN  IF k \in ParamKinds
        THEN UNION {   {Dict(<<w, b>>) : w \in WI(p), b \in BI(p)}
                  \cup {Dict(<<w>>) : w \in WI(p)}
                  \cup {Dict(<<b>>) : b \in BI(p)} : p \in Prefixes}
        ELSE {Dict(<<w, b>>) : w \in WI(Str_0), b \in BI(Str_0)}

(************************* state *******************************************)
VARIABLES
    kind,        \* the class of the instance
    name,        \* Layer.name
    training,    \* Layer.training
    trainable,   \* Layer.trainable
    weights,     \* FCLayer/Convolution.weights
    bias,        \* FCLayer/Convolution.bias
    w_grad,      \* FCLayer/Convolution.w_grad
    b_grad,      \* FCLayer/Convolution.b_grad
    pool_type,   \* Pooling.pool_type
    max_idx,     \* Pooling.max_idx
    mask,        \* Dropout.mask
    op,          \* the method called last
    arg,         \* its arguments
    ret,         \* what it returned, or the exception it raised
    last_fwd,    \* history (Pooling, Dropout): inputs and mode of the latest forward
                 \* call that returned
    last_bwd     \* history (FCLayer, Convolution): arguments of the latest backward call

vars == <<kind, name, training, trainable, weights, bias, w_grad, b_grad,
          pool_type, max_idx, mask, op, arg, ret, last_fwd, last_bwd>>

\* the instance as one value, for the methods below
Self ==
    [kind |-> kind, name |-> name, training |-> training, trainable |-> trainable,
     weights |-> weights, bias |-> bias, w_grad |-> w_grad, b_grad |-> b_grad,
     pool_type |-> pool_type, max_idx |-> max_idx, mask |-> mask]

\* a method's outcome: the instance afterwards and the value returned / raised
Out(self, v) == [self |-> self, ret |-> v]


(************************* utils: column transform and pooling kernels *****)
\* img2col_indices(x, kh, kw, pad, stride): x is (N, C, H, W); the result is
\* (C*kh*kw, out_h*out_w*N), one column per window, windows row-major and the
\* batch index running fastest; cells of the zero padding read 0.
img2col_indices(x, kh, kw, pad, stride) ==
    IF IsErr(x) THEN x
    ELSE IF Len(x.shape) # 4 THEN Raise("ValueError")
    ELSE LET n == x.shape[1]
             c == x.shape[2]
             h == x.shape[3]
             w == x.shape[4]
             oh == (h + 2 * pad - kh) \div stride + 1
             ow == (w + 2 * pad - kw) \div stride + 1
             Cell(r, q) ==
                 LET ch == r \div (kh * kw)
                     i == (r \div kw) % kh
                     j == r % kw
                     b == q % n
                     y == (q \div n) \div ow
                     z == (q \div n) % ow
                     hh == y * stride + i - pad
                     ww == z * stride + j - pad
                 IN  IF hh >= 0 /\ hh < h /\ ww >= 0 /\ ww < w
                     THEN At(x, <<b, ch, hh, ww>>) ELSE 0
         IN  IF oh < 1 \/ ow < 1 THEN Raise("ValueError")
             ELSE FromFn(<<c * kh * kw, oh * ow * n>>, LAMBDA m : Cell(m[1], m[2]))

\* col2img_indices(cols, shape, kh, kw, pad, stride): the adjoint; every cell of
\* cols is ADDED to the image position it was read from, the padding is cropped.
col2img_indices(cols, shape, kh, kw, pad, stride) ==
    IF IsErr(cols) THEN cols
    ELSE LET n == shape[1]
             c == shape[2]
             h == shape[3]
             w == shape[4]
             oh == (h + 2 * pad - kh) \div stride + 1
             ow == (w + 2 * pad - kw) \div stride + 1
             Hits(r, q, m) ==
                 /\ r \div (kh * kw) = m[2]
                 /\ q % n = m[1]
                 /\ ((q \div n) \div ow) * stride + ((r \div kw) % kh) - pad = m[3]
                 /\ ((q \div n) % ow) * stride + (r % kw) - pad = m[4]
         IN  IF oh < 1 \/ ow < 1 \/ cols.shape # <<c * kh * kw, oh * ow * n>>
             THEN Raise("ValueError")
             ELSE FromFn(shape, LAMBDA m : SumSeq([f \in 1..Len(cols.data) |->
                      IF Hits((f - 1) \div cols.shape[2], (f - 1) % cols.shape[2], m)
                      THEN cols.data[f] ELSE 0]))

Column(cols, q) == [r \in 1..cols.shape[1] |-> At(cols, <<r - 1, q>>)]
\* np.argmax: the first index of the largest element (0-based)
ArgMax(col) ==
    CHOOSE i \in 0..(Len(col) - 1) :
        /\ \A k \in 1..Len(col) : col[k] <= col[i + 1]
        /\ \A k \in 1..i : col[k] < col[i + 1]

\* maxpool(cols) -> (column maxima, index of the maximum of every column)
maxpool(cols) ==
    IF IsErr(cols) THEN [out |-> cols, idx |-> cols]
    ELSE LET idx == FromFn(<<cols.shape[2]>>, LAMBDA m : ArgMax(Column(cols, m[1])))
         IN  [out |-> FromFn(<<cols.shape[2]>>, LAMBDA m : At(cols, <<At(idx, m), m[1]>>)),
              idx |-> idx]
\* avgpool(cols) -> (column means, nothing: the weights are implicit)
avgpool(cols) ==
    IF IsErr(cols) THEN [out |-> cols, idx |-> cols]
    ELSE [out |-> FromFn(<<cols.shape[2]>>,
                         LAMBDA m : SumSeq(Column(cols, m[1])) \div cols.shape[1]),
          idx |-> None]
\* dmaxpool(dcols, dout, idx): every upstream value goes to the stored index of
\* its column; without a stored index there is no position to scatter to
dmaxpool(dcols, dout, idx) ==
    IF IsErr(dcols) THEN dcols ELSE IF IsErr(dout) THEN dout
    ELSE IF ~IsND(idx) THEN Raise("TypeError")
    ELSE IF idx.shape # <<dcols.shape[2]>> \/ dout.shape # <<dcols.shape[2]>>
         THEN Raise("IndexError")
    ELSE FromFn(dcols.shape,
                LAMBDA m : IF At(idx, <<m[2]>>) = m[1] THEN At(dout, <<m[2]>>) ELSE At(dcols, m))
\* davgpool(dcols, dout, idx): every upstream value is spread evenly over its
\* column; the stored state is not consulted
davgpool(dcols, dout, idx) ==
    IF IsErr(dcols) THEN dcols ELSE IF IsErr(dout) THEN dout
    ELSE IF dout.shape # <<dcols.shape[2]>> THEN Raise("ValueError")
    ELSE FromFn(dcols.shape, LAMBDA m : At(dout, <<m[2]>>) \div dcols.shape[1])

(************************* class Layer *************************************)
\* Layer.update: pass
Layer_update(self, params) == Out(self, None)
\* Layer.set_mode
Layer_set_mode(self, flag) == Out([self EXCEPT !.training = flag], None)
\* Layer.set_trainable
Layer_set_trainable(self, flag) == Out([self EXCEPT !.trainable = flag], None)
\* Layer.get_params
Layer_get_params(self, prefix) == Out(self, None)

(************************* class FCLayer ***********************************)
FCLayer_forward(self, inputs) ==
    Out(self, Add(MatMul(inputs, self.weights), self.bias))

\* faulty variant: self.w_grad += ..., self.b_grad += ...
FCLayer_backward_accumulate(self, in_grads, inputs) ==
    LET wg == Add(self.w_grad, MatMul(T(inputs), in_grads))
        s1 == [self EXCEPT !.w_grad = wg]
        bg == Add(self.b_grad, SumAxes(in_grads, {1}))
        s2 == [s1 EXCEPT !.b_grad = bg]
    IN  IF IsErr(wg) THEN Out(self, wg)
        ELSE IF IsErr(bg) THEN Out(s1, bg)
        ELSE Out(s2, MatMul(in_grads, T(s2.weights)))
FCLayer_backward(self, in_grads, inputs) ==
    LET wg == MatMul(T(inputs), in_grads)
        s1 == [self EXCEPT !.w_grad = wg]
        bg == SumAxes(in_grads, {1})
        s2 == [s1 EXCEPT !.b_grad = bg]
    IN  IF IsErr(wg) THEN Out(self, wg)
        ELSE IF IsErr(bg) THEN Out(s1, bg)
        ELSE Out(s2, MatMul(in_grads, T(s2.weights)))

\* for k, v in params.items(): 'weights' in k -> self.weights = v, else self.bias = v
RECURSIVE AssignParams(_, _)
AssignParams(self, items) ==
    IF items = <<>> THEN self
    ELSE AssignParams(IF StrIn(Str_weights, Head(items).k)
                      THEN [self EXCEPT !.weights = Head(items).v]
                      ELSE [self EXCEPT !.bias = Head(items).v],
                      Tail(items))
FCLayer_update(self, params) == Out(AssignParams(self, params.items), None)

ExportParams(self, prefix) ==
    IF self.trainable
    THEN [tag |-> "tuple",
          params |-> Dict(<<Item(WeightsKey(prefix, self.name), self.weights),
                            Item(BiasKey(prefix, self.name), self.bias)>>),
          grads |-> Dict(<<Item(WeightsKey(prefix, self.name), self.w_grad),
                           Item(BiasKey(prefix, self.name), self.b_grad)>>)]
    ELSE None
\* faulty variant: the export does not look at self.trainable
FCLayer_get_params_always(self, prefix) ==
    Out(self, ExportParams([self EXCEPT !.trainable = TRUE], prefix))
FCLayer_get_params(self, prefix) == Out(self, ExportParams(self, prefix))

(************************* class Convolution *******************************)
Convolution_forward(self, inputs) ==
    LET batch == inputs.shape[1]
        out_height == (inputs.shape[3] + 2 * conv_pad - kernel_h) \div conv_stride + 1
        out_width == (inputs.shape[4] + 2 * conv_pad - kernel_w) \div conv_stride + 1
        inputs_cols == img2col_indices(inputs, kernel_h, kernel_w, conv_pad, conv_stride)
        weights_rows == Reshape(self.weights, <<out_channel, -1>>)
        outputs == Add(MatMul(weights_rows, inputs_cols), Reshape(self.bias, <<-1, 1>>))
    IN  Out(self, Transpose(Reshape(outputs, <<out_channel, out_height, out_width, batch>>),
                            <<4, 1, 2, 3>>))

Convolution_backward(self, in_grads, inputs) ==
    LET bg == SumAxes(in_grads, {1, 3, 4})
        s1 == [self EXCEPT !.b_grad = bg]
        in_grads_rows == Reshape(Transpose(in_grads, <<2, 3, 4, 1>>), <<out_channel, -1>>)
        inputs_cols == img2col_indices(inputs, kernel_h, kernel_w, conv_pad, conv_stride)
        wg2 == MatMul(in_grads_rows, T(inputs_cols))
        s2 == [s1 EXCEPT !.w_grad = wg2]
        wg == Reshape(wg2, self.weights.shape)
        s3 == [s2 EXCEPT !.w_grad = wg]
        weights_rows == Reshape(self.weights, <<out_channel, -1>>)
        out_grads_cols == MatMul(T(weights_rows), in_grads_rows)
    IN  IF IsErr(bg) THEN Out(self, bg)
        ELSE IF IsErr(wg2) THEN Out(s1, wg2)
        ELSE IF IsErr(wg) THEN Out(s2, wg)
        ELSE Out(s3, col2img_indices(out_grads_cols, inputs.shape,
                                     kernel_h, kernel_w, conv_pad, conv_stride))

Convolution_update(self, params) == Out(AssignParams(self, params.items), None)
Convolution_get_params(self, prefix) == Out(self, ExportParams(self, prefix))

(************************* class ReLU **************************************)
\* np.maximum(0, inputs)
ReLU_forward(self, inputs) ==
    Out(self, FromFn(inputs.shape, LAMBDA m : Max2(0, At(inputs, m))))
\* faulty variant: (inputs > 0) * in_grads
ReLU_backward_strict(self, in_grads, inputs) ==
    Out(self, Mul(FromFn(inputs.shape, LAMBDA m : IF At(inputs, m) > 0 THEN 1 ELSE 0),
                  in_grads))
\* (inputs >= 0) * in_grads
ReLU_backward(self, in_grads, inputs) ==
    Out(self, Mul(FromFn(inputs.shape, LAMBDA m : IF At(inputs, m) >= 0 THEN 1 ELSE 0),
                  in_grads))

(************************* class Pooling ***********************************)
\* faulty variant: the else branch of the pool_type test falls through to maxpool
Pooling_forward_fallthrough(self, inputs) ==
    LET batch == inputs.shape[1]
        in_ch == inputs.shape[2]
        in_height == inputs.shape[3]
        in_width == inputs.shape[4]
        out_height == (in_height - pool_height) \div pool_stride + 1
        out_width == (in_width - pool_width) \div pool_stride + 1
        inputs_reshaped == Reshape(inputs, <<batch * in_ch, 1, in_height, in_width>>)
        inputs_cols == img2col_indices(inputs_reshaped, pool_height, pool_width,
                                       pool_pad, pool_stride)
        pooled == IF self.pool_type = "avg" THEN avgpool(inputs_cols)
                  ELSE maxpool(inputs_cols)
        s1 == [self EXCEPT !.max_idx = pooled.idx]
    IN  IF IsErr(inputs_cols) THEN Out(self, inputs_cols)
        ELSE Out(s1, Transpose(Reshape(pooled.out,
                                       <<out_height, out_width, batch, in_ch>>),
                               <<3, 4, 1, 2>>))
Pooling_forward(self, inputs) ==
    IF self.pool_type \notin {"max", "avg"} THEN Out(self, Raise("ValueError"))
    ELSE LET batch == inputs.shape[1]
             in_ch == inputs.shape[2]
             in_height == inputs.shape[3]
             in_width == inputs.shape[4]
             out_height == (in_height - pool_height) \div pool_stride + 1
             out_width == (in_width - pool_width) \div pool_stride + 1
             inputs_reshaped == Reshape(inputs, <<batch * in_ch, 1, in_height, in_width>>)
             inputs_cols == img2col_indices(inputs_reshaped, pool_height, pool_width,
                                            pool_pad, pool_stride)
             pooled == IF self.pool_type = "max" THEN maxpool(inputs_cols)
                       ELSE avgpool(inputs_cols)
             s1 == [self EXCEPT !.max_idx = pooled.idx]
         IN  IF IsErr(inputs_cols) THEN Out(self, inputs_cols)
             ELSE Out(s1, Transpose(Reshape(pooled.out,
                                            <<out_height, out_width, batch, in_ch>>),
                                    <<3, 4, 1, 2>>))

\* faulty variant: the index is recomputed from the inputs argument of backward
Pooling_backward_recompute(self, in_grads, inputs) ==
    IF self.pool_type \notin {"max", "avg"} THEN Out(self, Raise("ValueError"))
    ELSE LET batch == inputs.shape[1]
             in_ch == inputs.shape[2]
             in_height == inputs.shape[3]
             in_width == inputs.shape[4]
             inputs_reshaped == Reshape(inputs, <<batch * in_ch, 1, in_height, in_width>>)
             inputs_cols == img2col_indices(inputs_reshaped, pool_height, pool_width,
                                            pool_pad, pool_stride)
             out_grads_cols == IF IsErr(inputs_cols) THEN inputs_cols
                               ELSE Zeros(inputs_cols.shape)
             in_grads_cols == Reshape(Transpose(in_grads, <<3, 4, 1, 2>>), <<-1>>)
             routed == IF self.pool_type = "max"
                       THEN dmaxpool(out_grads_cols, in_grads_cols, maxpool(inputs_cols).idx)
                       ELSE davgpool(out_grads_cols, in_grads_cols, self.max_idx)
         IN  Out(self, Reshape(col2img_indices(routed,
                                   <<batch * in_ch, 1, in_height, in_width>>,
                                   pool_height, pool_width, pool_pad, pool_stride),
                               inputs.shape))
Pooling_backward(self, in_grads, inputs) ==
    IF self.pool_type \notin {"max", "avg"} THEN Out(self, Raise("ValueError"))
    ELSE LET batch == inputs.shape[1]
             in_ch == inputs.shape[2]
             in_height == inputs.shape[3]
             in_width == inputs.shape[4]
             inputs_reshaped == Reshape(inputs, <<batch * in_ch, 1, in_height, in_width>>)
             inputs_cols == img2col_indices(inputs_reshaped, pool_height, pool_width,
                                            pool_pad, pool_stride)
             out_grads_cols == IF IsErr(inputs_cols) THEN inputs_cols
                               ELSE Zeros(inputs_cols.shape)
             in_grads_cols == Reshape(Transpose(in_grads, <<3, 4, 1, 2>>), <<-1>>)
             routed == IF self.pool_type = "max"
                       THEN dmaxpool(out_grads_cols, in_grads_cols, self.max_idx)
                       ELSE davgpool(out_grads_cols, in_grads_cols, self.max_idx)
         IN  Out(self, Reshape(col2img_indices(routed,
                                   <<batch * in_ch, 1, in_height, in_width>>,
                                   pool_height, pool_width, pool_pad, pool_stride),
                               inputs.shape))

(************************* class Dropout ***********************************)
\* faulty variant: the inference branch keeps the mask of the earlier call
Dropout_forward_stale(self, inputs, drawn) ==
    IF self.training
    THEN LET m == FromFn(drawn.shape, LAMBDA i : At(drawn, i) * inv_keep)
         IN  Out([self EXCEPT !.mask = m], Mul(inputs, m))
    ELSE Out(self, inputs)
\* drawn is np.random.binomial(1, 1-ratio, size=inputs.shape)
Dropout_forward(self, inputs, drawn) ==
    IF self.training
    THEN LET m == FromFn(drawn.shape, LAMBDA i : At(drawn, i) * inv_keep)
         IN  Out([self EXCEPT !.mask = m], Mul(inputs, m))
    ELSE Out([self EXCEPT !.mask = Ones(inputs.shape)], inputs)

\* faulty variant: the mask is dropped once it has been used
Dropout_backward_clear(self, in_grads, inputs) ==
    Out([self EXCEPT !.mask = None], Mul(in_grads, self.mask))
Dropout_backward(self, in_grads, inputs) == Out(self, Mul(in_grads, self.mask))

(************************* class Flatten ***********************************)
Flatten_forward(self, inputs) == Out(self, Reshape(inputs, <<inputs.shape[1], -1>>))
Flatten_backward(self, in_grads, inputs) == Out(self, Reshape(in_grads, inputs.shape))


(************************* construction ************************************)
\* Layer.__init__ and the subclass constructors; initializer.initialize(shape)
\* may return any array of the shape
Init ==
    /\ kind \in Kinds
    /\ name \in Names(kind)
    /\ training = TRUE
    /\ trainable = (kind \in ParamKinds)
    /\ weights \in IF kind \in ParamKinds
                   THEN {Full(WeightsShape(kind), v) : v \in Vals} ELSE {None}
    /\ bias = IF kind \in ParamKinds THEN Zeros(BiasShape(kind)) ELSE None
    /\ w_grad = IF kind \in ParamKinds THEN Zeros(weights.shape) ELSE None
    /\ b_grad = IF kind \in ParamKinds THEN Zeros(bias.shape) ELSE None
    /\ pool_type \in IF kind = "Pooling" THEN PoolTypes ELSE {"n/a"}
    /\ max_idx = None
    /\ mask = None
    /\ op = "__init__"
    /\ arg = None
    /\ ret = None
    /\ last_fwd = None
    /\ last_bwd = None

(************************* method calls ************************************)
Args1(inputs) == [tag |-> "args", inputs |-> inputs]
Args2(in_grads, inputs) == [tag |-> "args", in_grads |-> in_grads, inputs |-> inputs]
ArgsP(params) == [tag |-> "args", params |-> params]
ArgsS(prefix) == [tag |-> "args", prefix |-> prefix]
ArgsF(flag) == [tag |-> "args", flag |-> flag]

\* one call: the instance becomes r.self, r.ret is returned (or raised)
Call(o, a, r) ==
    /\ kind' = r.self.kind
    /\ name' = r.self.name
    /\ training' = r.self.training
    /\ trainable' = r.self.trainable
    /\ weights' = r.self.weights
    /\ bias' = r.self.bias
    /\ w_grad' = r.self.w_grad
    /\ b_grad' = r.self.b_grad
    /\ pool_type' = r.self.pool_type
    /\ max_idx' = r.self.max_idx
    /\ mask' = r.self.mask
    /\ op' = o
    /\ arg' = a
    /\ ret' = r.ret
    /\ last_fwd' = IF o = "forward" /\ ~IsErr(r.ret) /\ kind \in {"Pooling", "Dropout"}
                   THEN [tag |-> "args", inputs |-> a.inputs, training |-> training]
                   ELSE last_fwd
    /\ last_bwd' = IF o = "backward" /\ kind \in ParamKinds THEN a ELSE last_bwd

FCForward ==
    /\ kind = "FCLayer"
    /\ \E x \in FCInputs : Call("forward", Args1(x), FCLayer_forward(Self, x))
FCBackward ==
    /\ kind = "FCLayer"
    /\ \E x \in FCInputs : \E g \in FCGrads(x) :
           Call("backward", Args2(g, x), FCLayer_backward(Self, g, x))
FCUpdate ==
    /\ kind = "FCLayer"
    /\ \E p \in ParamDicts(kind, name) : Call("update", ArgsP(p), FCLayer_update(Self, p))
FCGetParams ==
    /\ kind = "FCLayer"
    /\ \E p \in Prefixes : Call("get_params", ArgsS(p), FCLayer_get_params(Self, p))

ConvForward ==
    /\ kind = "Convolution"
    /\ \E x \in ConvInputs : Call("forward", Args1(x), Convolution_forward(Self, x))
ConvBackward ==
    /\ kind = "Convolution"
    /\ \E x \in ConvInputs : \E g \in ConvGrads(x) :
           Call("backward", Args2(g, x), Convolution_backward(Self, g, x))
ConvUpdate ==
    /\ kind = "Convolution"
    /\ \E p \in ParamDicts(kind, name) :
           Call("update", ArgsP(p), Convolution_update(Self, p))
ConvGetParams ==
    /\ kind = "Convolution"
    /\ \E p \in Prefixes : Call("get_params", ArgsS(p), Convolution_get_params(Self, p))

ReLUForward ==
    /\ kind = "ReLU"
    /\ \E x \in ReLUTensors : Call("forward", Args1(x), ReLU_forward(Self, x))
ReLUBackward ==
    /\ kind = "ReLU"
    /\ \E x \in ReLUTensors : \E g \in ReLUTensors :
           Call("backward", Args2(g, x), ReLU_backward(Self, g, x))

PoolingForward ==
    /\ kind = "Pooling"
    /\ \E x \in PoolInputs : Call("forward", Args1(x), Pooling_forward(Self, x))
\* backward is given the inputs of the latest forward call, or other inputs
PoolingBackward ==
    /\ kind = "Pooling"
    /\ \E x \in {Full(<<1, 1, 1, 4>>, v) : v \in PoolVals}
                \cup (IF last_fwd = None THEN {} ELSE {last_fwd.inputs}) :
       \E g \in PoolGrads(x) :
           Call("backward", Args2(g, x), Pooling_backward(Self, g, x))

DropoutForward ==
    /\ kind = "Dropout"
    /\ \E x \in DropTensors :
       \E drawn \in IF training THEN Tensors(x.shape, {0, 1}) ELSE {Zeros(x.shape)} :
           Call("forward", Args1(x), Dropout_forward(Self, x, drawn))
DropoutBackward ==
    /\ kind = "Dropout"
    /\ \E x \in DropTensors : \E g \in Tensors(x.shape, Vals) :
           Call("backward", Args2(g, x), Dropout_backward(Self, g, x))

FlattenForward ==
    /\ kind = "Flatten"
    /\ \E x \in FlattenInputs : Call("forward", Args1(x), Flatten_forward(Self, x))
FlattenBackward ==
    /\ kind = "Flatten"
    /\ \E x \in FlattenInputs : \E g \in FlattenGrads(x) :
           Call("backward", Args2(g, x), Flatten_backward(Self, g, x))

\* the methods ReLU, Pooling, Dropout and Flatten inherit from Layer
LayerUpdate ==
    /\ kind \notin ParamKinds
    /\ \E p \in ParamDicts(kind, name) : Call("update", ArgsP(p), Layer_update(Self, p))
LayerGetParams ==
    /\ kind \notin ParamKinds
    /\ \E p \in Prefixes : Call("get_params", ArgsS(p), Layer_get_params(Self, p))
\* the methods every class inherits from Layer
SetMode ==
    \E f \in BOOLEAN : Call("set_mode", ArgsF(f), Layer_set_mode(Self, f))
SetTrainable ==
    \E f \in BOOLEAN : Call("set_trainable", ArgsF(f), Layer_set_trainable(Self, f))

Next ==
    \/ FCForward \/ FCBackward \/ FCUpdate \/ FCGetParams
    \/ ConvForward \/ ConvBackward \/ ConvUpdate \/ ConvGetParams
    \/ ReLUForward \/ ReLUBackward
    \/ PoolingForward \/ PoolingBackward
    \/ DropoutForward \/ DropoutBackward
    \/ FlattenForward \/ FlattenBackward
    \/ LayerUpdate \/ LayerGetParams
    \/ SetMode \/ SetTrainable

Spec == Init /\ [][Next]_vars

\* an FCLayer or a Convolution under backward calls, with set_mode calls between
NextGrad == FCBackward \/ ConvBackward \/ SetMode
InitGrad == Init /\ kind \in ParamKinds
SpecGrad == InitGrad /\ [][NextGrad]_vars

\* any layer under update, backward, set_trainable and get_params calls
NextExport ==
    \/ FCBackward \/ FCUpdate \/ FCGetParams
    \/ ConvBackward \/ ConvUpdate \/ ConvGetParams
    \/ LayerUpdate \/ LayerGetParams \/ SetTrainable
SpecExport == Init /\ [][NextExport]_vars

\* a Dropout under forward, backward and set_mode calls
NextDropout == DropoutForward \/ DropoutBackward \/ SetMode
InitDropout == Init /\ kind = "Dropout"
SpecDropout == InitDropout /\ [][NextDropout]_vars

\* a Pooling under forward and backward calls
NextPooling == PoolingForward \/ PoolingBackward
InitPooling == Init /\ kind = "Pooling"
SpecPooling == InitPooling /\ [][NextPooling]_vars

\* a ReLU under forward, backward and set_mode calls
NextReLU == ReLUForward \/ ReLUBackward \/ SetMode
InitReLU == Init /\ kind = "ReLU"
SpecReLU == InitReLU /\ [][NextReLU]_vars

(************************* properties ***************************************)
IsNone(v) == v.tag = "None"
NonZero(t) == IsND(t) /\ \E i \in 1..Len(t.data) : t.data[i] # 0

\* C1: on a fresh Pooling ('max' or 'avg') or Dropout, backward before any
\* forward call ends in an error
C1_BackwardBeforeForwardFails ==
    (/\ kind \in {"Pooling", "Dropout"}
     /\ pool_type \in {"max", "avg", "n/a"}
     /\ op = "backward"
     /\ IsNone(last_fwd))
        => IsErr(ret)

\* C2 as stated: in inference mode forward returns its inputs and backward
\* returns in_grads, after any earlier calls
C2_InferenceIsIdentity ==
    /\ (kind = "Dropout" /\ ~training /\ op = "forward") => ret = arg.inputs
    /\ (kind = "Dropout" /\ ~training /\ op = "backward") => ret = arg.in_grads

\* C2 amended: in inference mode forward returns its inputs; backward returns
\* in_grads when the latest forward call ran in inference mode on an input of
\* the shape of in_grads
C2_InferenceIdentityAfterInferenceForward ==
    /\ (kind = "Dropout" /\ ~training /\ op = "forward") => ret = arg.inputs
    /\ (/\ kind = "Dropout" /\ ~training /\ op = "backward"
        /\ ~IsNone(last_fwd) /\ ~last_fwd.training
        /\ last_fwd.inputs.shape = arg.in_grads.shape)
           => ret = arg.in_grads
C2_Witness ==
    /\ kind = "Dropout" /\ ~training /\ op = "backward"
    /\ ~IsNone(last_fwd) /\ ~last_fwd.training
    /\ last_fwd.inputs.shape = arg.in_grads.shape
    /\ NonZero(arg.in_grads)
    /\ ret = arg.in_grads

\* what the layer must hold and return for a (1, 1, 1, W) input, written out
\* per window: window j covers positions j*stride .. j*stride + pool_width - 1
Windows(x) == (x.shape[4] - pool_width) \div pool_stride + 1
FirstMax(x, j) ==
    CHOOSE i \in 0..(pool_width - 1) :
        /\ \A k \in 0..(pool_width - 1) :
               x.data[j * pool_stride + k + 1] <= x.data[j * pool_stride + i + 1]
        /\ \A k \in 0..(i - 1) :
               x.data[j * pool_stride + k + 1] < x.data[j * pool_stride + i + 1]
RecordOf(pt, x) ==
    IF pt = "max" THEN ND(<<Windows(x)>>, [j \in 1..Windows(x) |-> FirstMax(x, j - 1)])
    ELSE None
RoutedBy(pt, rec, g, shape) ==
    ND(shape, [q \in 1..shape[4] |->
        SumSeq([j \in 1..Len(g.data) |->
            IF q - 1 >= (j - 1) * pool_stride /\ q - 1 < (j - 1) * pool_stride + pool_width
            THEN IF pt = "max"
                 THEN (IF rec.data[j] = q - 1 - (j - 1) * pool_stride THEN g.data[j] ELSE 0)
                 ELSE g.data[j] \div pool_width
            ELSE 0])])

\* C3: max_idx is always the record of the latest forward call (forward replaces
\* it, backward leaves it), and backward routes the gradient by that record
\* whatever inputs it is given
C3_BackwardUsesLatestForward ==
    (kind = "Pooling" /\ pool_type \in {"max", "avg"} /\ ~IsNone(last_fwd))
        => /\ max_idx = RecordOf(pool_type, last_fwd.inputs)
           /\ op = "backward"
                 => ret = RoutedBy(pool_type, RecordOf(pool_type, last_fwd.inputs),
                                   arg.in_grads, arg.inputs.shape)
C3_Witness ==
    /\ kind = "Pooling" /\ pool_type = "max" /\ op = "backward" /\ ~IsNone(last_fwd)
    /\ arg.inputs # last_fwd.inputs
    /\ RecordOf("max", arg.inputs) # RecordOf("max", last_fwd.inputs)
    /\ \A j \in 1..Len(arg.in_grads.data) : arg.in_grads.data[j] # 0
    /\ NonZero(ret)

\* the gradients of the parameters for one backward call, written out
ExpectWGrad(k, c) ==
    IF k = "FCLayer"
    THEN FromFn(<<in_features, out_features>>,
                LAMBDA m : SumSeq([b \in 1..c.inputs.shape[1] |->
                    At(c.inputs, <<b - 1, m[1]>>) * At(c.in_grads, <<b - 1, m[2]>>)]))
    ELSE FromFn(<<out_channel, in_channel, kernel_h, kernel_w>>,
                LAMBDA m : SumSeq([f \in 1..Len(c.in_grads.data) |->
                    LET q == Unravel(f - 1, c.in_grads.shape)
                        hh == q[3] * conv_stride + m[3] - conv_pad
                        ww == q[4] * conv_stride + m[4] - conv_pad
                    IN  IF q[2] = m[1] /\ hh >= 0 /\ hh < c.inputs.shape[3]
                           /\ ww >= 0 /\ ww < c.inputs.shape[4]
                        THEN c.in_grads.data[f] * At(c.inputs, <<q[1], m[2], hh, ww>>)
                        ELSE 0]))
ExpectBGrad(k, c) ==
    IF k = "FCLayer"
    THEN FromFn(<<out_features>>,
                LAMBDA m : SumSeq([b \in 1..c.in_grads.shape[1] |->
                    At(c.in_grads, <<b - 1, m[1]>>)]))
    ELSE FromFn(<<out_channel>>,
                LAMBDA m : SumSeq([f \in 1..Len(c.in_grads.data) |->
                    IF Unravel(f - 1, c.in_grads.shape)[2] = m[1]
                    THEN c.in_grads.data[f] ELSE 0]))

\* C4: after backward calls, w_grad and b_grad of an FCLayer or Convolution are
\* the gradients of the latest call alone and have the shapes of weights, bias
C4_GradsOfLastBackward ==
    (kind \in ParamKinds /\ ~IsNone(last_bwd))
        => /\ w_grad = ExpectWGrad(kind, last_bwd)
           /\ b_grad = ExpectBGrad(kind, last_bwd)
           /\ w_grad.shape = weights.shape
           /\ b_grad.shape = bias.shape
C4_Witness ==
    /\ kind \in ParamKinds /\ op = "backward"
    /\ NonZero(w_grad) /\ NonZero(b_grad)
    /\ \E i \in 1..Len(last_bwd.inputs.data) : last_bwd.inputs.data[i] = 0

\* the dictionary holds exactly the two exported keys of one prefix
ExportedKeys(d, nm) ==
    \E p \in Prefixes : Keys(d) = {WeightsKey(p, nm), BiasKey(p, nm)}
PrefixOf(d, nm) ==
    CHOOSE p \in Prefixes : Keys(d) = {WeightsKey(p, nm), BiasKey(p, nm)}

\* C5: update with the two exported keys sets weights and bias to the values
\* under them and leaves the gradients alone, whatever the name and the prefix
C5_UpdateByExportedKeys ==
    [][(op' = "update" /\ kind \in ParamKinds /\ ExportedKeys(arg'.params, name))
          => /\ weights' = Get(arg'.params, WeightsKey(PrefixOf(arg'.params, name), name))
             /\ bias' = Get(arg'.params, BiasKey(PrefixOf(arg'.params, name), name))
             /\ w_grad' = w_grad
             /\ b_grad' = b_grad]_vars

\* C6: update changes nothing on a layer whose trainable flag is False
C6_UpdateNoOpWhenNotTrainable ==
    [][(op' = "update" /\ ~trainable)
          => UNCHANGED <<kind, name, training, trainable, weights, bias, w_grad, b_grad,
                         pool_type, max_idx, mask>>]_vars

\* what get_params exports: both keys, the current parameters, the gradients
ExpectExport(prefix) ==
    [tag |-> "tuple",
     params |-> Dict(<<Item(prefix \o <<":">> \o name \o <<"/">> \o Str_weights, weights),
                       Item(prefix \o <<":">> \o name \o <<"/">> \o Str_bias, bias)>>),
     grads |-> Dict(<<Item(prefix \o <<":">> \o name \o <<"/">> \o Str_weights, w_grad),
                      Item(prefix \o <<":">> \o name \o <<"/">> \o Str_bias, b_grad)>>)]
GradsAreLatest ==
    ~IsNone(last_bwd)
        => /\ w_grad.data = ExpectWGrad(kind, last_bwd).data
           /\ b_grad.data = ExpectBGrad(kind, last_bwd).data

\* C7 as stated: get_params on a layer with trainable = True exports parameters
\* and latest gradients, on a layer with trainable = False it returns None
C7_ExportFollowsTrainable ==
    op = "get_params"
        => IF trainable THEN ret = ExpectExport(arg.prefix) /\ GradsAreLatest
           ELSE IsNone(ret)

\* C7 amended: an FCLayer or Convolution with trainable = True exports its
\* parameters and latest gradients; with trainable = False, and on every ReLU,
\* Pooling, Dropout and Flatten whatever the flag, get_params returns None
C7_ExportOfParamLayers ==
    op = "get_params"
        => IF kind \in ParamKinds /\ trainable
           THEN ret = ExpectExport(arg.prefix) /\ GradsAreLatest
           ELSE IsNone(ret)
C7_Witness ==
    /\ op = "get_params" /\ kind = "Convolution" /\ trainable
    /\ ~IsNone(last_bwd) /\ NonZero(w_grad) /\ NonZero(weights) /\ NonZero(bias)
    /\ ret.tag = "tuple"
    /\ Get(ret.grads, WeightsKey(arg.prefix, name)) = w_grad

\* C8: on a Pooling whose pool_type is neither 'max' nor 'avg', forward and
\* backward raise ValueError and leave max_idx as it was
C8_BadPoolTypeRaises ==
    [][(kind = "Pooling" /\ pool_type \notin {"max", "avg"}
        /\ op' \in {"forward", "backward"})
          => ret' = Raise("ValueError") /\ max_idx' = max_idx]_vars
C8_Witness ==
    /\ kind = "Pooling" /\ pool_type \notin {"max", "avg"}
    /\ op = "backward" /\ ret = Raise("ValueError") /\ IsNone(max_idx)

\* C9: ReLU.backward returns 0 where inputs < 0 and the in_grads element where
\* inputs > 0 and where inputs = 0
C9_ReLUBackward ==
    (kind = "ReLU" /\ op = "backward")
        => /\ IsND(ret)
           /\ ret.shape = arg.inputs.shape
           /\ \A i \in 1..Len(arg.inputs.data) :
                  ret.data[i] = IF arg.inputs.data[i] < 0 THEN 0 ELSE arg.in_grads.data[i]
C9_Witness ==
    /\ kind = "ReLU" /\ op = "backward"
    /\ \E i, j \in 1..Len(arg.inputs.data) :
           /\ arg.inputs.data[i] = 0 /\ arg.in_grads.data[i] # 0
           /\ ret.data[i] = arg.in_grads.data[i]
           /\ arg.inputs.data[j] < 0 /\ arg.in_grads.data[j] # 0
           /\ ret.data[j] = 0

\* C10: forward changes at most Pooling's max_idx and Dropout's mask, backward
\* changes at most w_grad and b_grad of an FCLayer or Convolution
C10_FrameOfForwardAndBackward ==
    [][/\ op' = "forward"
          => /\ UNCHANGED <<weights, bias, w_grad, b_grad, training, trainable>>
             /\ kind # "Pooling" => max_idx' = max_idx
             /\ kind # "Dropout" => mask' = mask
       /\ op' = "backward"
          => /\ UNCHANGED <<weights, bias, max_idx, mask, training, trainable>>
             /\ kind \notin ParamKinds => UNCHANGED <<w_grad, b_grad>>]_vars
C10_Witness ==
    /\ kind \in ParamKinds /\ op = "backward" /\ IsND(ret)
    /\ NonZero(w_grad) /\ NonZero(b_grad) /\ NonZero(weights)

====
